---- MODULE Spec2Model ----
(***************************************************************************)
(* A model of three parts of oss-rebuild:                                  *)
(*   - pkg/rebuild/pypi: compareTwoFiles (the verdict classifier) and      *)
(*     Rebuilder.Rebuild (the three build phases);                         *)
(*   - the http package: CachedClient.Do over a coalescing cache.          *)
(* Each part has its own specification (SpecCompare, SpecRebuild,          *)
(* SpecHttp); the variables of the other parts stay at their initial       *)
(* values.                                                                 *)
(***************************************************************************)
EXTENDS Integers, Sequences, FiniteSets, TLC

VARIABLES
    \* compareTwoFiles
    csRB,       \* the rebuilt artifact's ContentSummary
    csUP,       \* the upstream artifact's ContentSummary
    cmpPc,      \* "call" before compareTwoFiles has run, "done" after
    verdict,    \* compareTwoFiles' first result
    cmpErr,     \* compareTwoFiles' second result
    \* Rebuilder.Compare
    sumErr,     \* the error rebuild.Summarize returned
    retVerdict, \* Compare's first result
    retErr,     \* Compare's second result
    \* Rebuilder.Rebuild, one call per attempt
    rbPc,       \* the statement each call is at: the phase whose script it
                \* runs next or is running, or "returned"
    running,    \* the phases whose script is executing right now
    started,    \* the phases each call has started, in order
    outcome,    \* the error each executed script returned, in order
    rbErr,      \* what each call returned
    \* CachedClient.Do, one call at a time per caller
    pc,         \* where each caller is: "idle", "compute" (running the
                \* function given to GetOrSet), "wait" (blocked in GetOrSet
                \* on another caller's computation), "returned"
    req,        \* each caller's request
    res,        \* what Do returned to each caller
    bodyRead,   \* whether each caller has read its response's body stream
    role,       \* how each caller's Do was served: "bypass", "hit",
                \* "leader", "waiter"
    store,      \* the cache: the bytes stored under each key
    flight,     \* the caller computing each key's value, 0 if none
    calls,      \* the calls of the underlying client's Do, per URL and in
                \* order: the request's method and the client's answer
    dos,        \* calls of CachedClient.Do
    getOrSets,  \* calls of cache.GetOrSet
    first,      \* the first response Do returned for a GET/HEAD of each URL
    \* rebuildPackage, one call per request
    pkPc,       \* where each call is: "submit", "poll", "compare", "attest",
                \* "done"
    pkTarget,   \* the Target each request names
    job,        \* the remote build of each call, as the operation last
                \* returned for it reports it
    pkVerdict,  \* the verdict of each call's comparison
    pkErr,      \* the error each call returned
    localMetadata,  \* d.LocalMetadataStore: the content under each asset
    attestationStore,   \* d.AttestationStore: the bytes of each Target's
                        \* attestation bundle
    overwriteAttestations,  \* d.OverwriteAttestations
    \* pypi.RebuildMany
    manyPc,     \* "call", "batch" (inside rebuild.RebuildMany), "returned"
    given,      \* the inputs as the caller gave them
    inputs,     \* the caller's slice, which RebuildMany writes to
    registry,   \* what mux.PyPI.Project returns for each package
    handed,     \* the inputs handed to rebuild.RebuildMany
    order,      \* the inputs rebuild.RebuildMany has rebuilt, in the order
                \* it got to them
    verdicts,   \* the verdicts rebuild.RebuildMany has so far
    manyRet,    \* what RebuildMany returned
    batchCalls  \* calls of rebuild.RebuildMany

cmpVars == <<csRB, csUP, cmpPc, verdict, cmpErr, sumErr, retVerdict, retErr>>
rbVars == <<rbPc, running, started, outcome, rbErr>>
httpVars == <<pc, req, res, bodyRead, role, store, flight, calls, dos,
              getOrSets, first>>

pkgVars == <<pkPc, pkTarget, job, pkVerdict, pkErr, localMetadata,
             attestationStore, overwriteAttestations>>

manyVars == <<manyPc, given, inputs, registry, handed, order, verdicts,
              manyRet, batchCalls>>

vars == <<csRB, csUP, cmpPc, verdict, cmpErr, sumErr, retVerdict, retErr,
          rbPc, running, started, outcome, rbErr,
          pc, req, res, bodyRead, role, store, flight, calls, dos,
          getOrSets, first,
          pkPc, pkTarget, job, pkVerdict, pkErr, localMetadata,
          attestationStore, overwriteAttestations,
          manyPc, given, inputs, registry, handed, order, verdicts, manyRet,
          batchCalls>>

Nil == "nil"

\* An error is the sequence of its messages, outermost first; the nil error
\* has none.  Unset stands for a result not yet returned.
NilError == <<>>
Unset == <<"unset">>

\* errors.Wrap(err, message): the message put in front of the error's own.
Wrap(err, message) == <<message>> \o err

(***************************************************************************)
(* Strings are sequences of one-character strings, so that the string      *)
(* functions below compute on the characters.                              *)
(***************************************************************************)
HasSuffix(s, suffix) ==
    /\ Len(s) >= Len(suffix)
    /\ SubSeq(s, Len(s) - Len(suffix) + 1, Len(s)) = suffix

Contains(s, substr) ==
    \E i \in 1..(Len(s) - Len(substr) + 1) :
        SubSeq(s, i, i + Len(substr) - 1) = substr

\* "/.DS_STORE", the literal of rebuild.go:60
DSStoreSuffix == <<"/", ".", "D", "S", "_", "S", "T", "O", "R", "E">>

\* ".dist-info/", the literal of rebuild.go:66
DistInfoDir == <<".", "d", "i", "s", "t", "-", "i", "n", "f", "o", "/">>

\* The archive paths of the model, in byte order.
PathRootDS == <<".", "D", "S", "_", "S", "T", "O", "R", "E">>
PathMeta   == <<"a", ".", "d", "i", "s", "t", "-", "i", "n", "f", "o", "/", "M">>
PathFoo    == <<"f", "o", "o">>
PathNestDS == <<"p", "/", ".", "D", "S", "_", "S", "T", "O", "R", "E">>

PathList == <<PathRootDS, PathMeta, PathFoo, PathNestDS>>
Paths == {PathList[i] : i \in 1..Len(PathList)}

NoFile == "absent"
Hashes == {"h1", "h2"}
MaxCRLF == 1

\* archive.ContentSummary: the files of an archive with their content hashes,
\* and the number of CRLF line endings.
ContentSummary ==
    [Files : [Paths -> Hashes \cup {NoFile}], CRLFCount : 0..MaxCRLF]

\* cs.Diff(other): the paths only in cs, the paths in both with different
\* hashes, the paths only in other; each in path order.
Diff(cs, other) ==
    [leftOnly  |-> SelectSeq(PathList, LAMBDA p :
                        cs.Files[p] # NoFile /\ other.Files[p] = NoFile),
     diffs     |-> SelectSeq(PathList, LAMBDA p :
                        /\ cs.Files[p] # NoFile /\ other.Files[p] # NoFile
                        /\ cs.Files[p] # other.Files[p]),
     rightOnly |-> SelectSeq(PathList, LAMBDA p :
                        cs.Files[p] = NoFile /\ other.Files[p] # NoFile)]

verdictDSStore         == ".DS_STORE file(s) found in upstream but not rebuild"
verdictLineEndings     == "Excess CRLF line endings found in upstream"
verdictMismatchedFiles == "mismatched file(s) in upstream and rebuild"
verdictUpstreamOnly    == "file(s) found in upstream but not rebuild"
verdictRebuildOnly     == "file(s) found in rebuild but not upstream"
verdictWheelDiff       == "wheel metadata mismatch"
verdictContentDiff     == "content differences found"

\* FoundDSStoreLoop with the flag assigned the test's result on every turn.
RECURSIVE FoundDSStoreLoopAssign(_, _, _)
FoundDSStoreLoopAssign(upOnly, i, found) ==
    IF i > Len(upOnly) THEN found
    ELSE FoundDSStoreLoopAssign(upOnly, i + 1,
             HasSuffix(upOnly[i], DSStoreSuffix))

\* The loop of rebuild.go:59-63 from element i on, with foundDSStore = found.
RECURSIVE FoundDSStoreLoop(_, _, _)
FoundDSStoreLoop(upOnly, i, found) ==
    IF i > Len(upOnly) THEN found
    ELSE FoundDSStoreLoop(upOnly, i + 1,
             IF HasSuffix(upOnly[i], DSStoreSuffix) THEN TRUE ELSE found)

\* OnlyMetadataLoop with || in place of &&.
RECURSIVE OnlyMetadataLoopAny(_, _, _)
OnlyMetadataLoopAny(diffs, i, only) ==
    IF i > Len(diffs) THEN only
    ELSE OnlyMetadataLoopAny(diffs, i + 1,
             only \/ Contains(diffs[i], DistInfoDir))

\* The loop of rebuild.go:65-67 from element i on, with
\* onlyMetadataDiffs = only.
RECURSIVE OnlyMetadataLoop(_, _, _)
OnlyMetadataLoop(diffs, i, only) ==
    IF i > Len(diffs) THEN only
    ELSE OnlyMetadataLoop(diffs, i + 1,
             only /\ Contains(diffs[i], DistInfoDir))

\* VerdictSwitch with the last test off by one (len(diffs) >= 0).
VerdictSwitchDiffsOffByOne(rb, up, d, foundDSStore, onlyMetadataDiffs) ==
    LET upOnly == d.leftOnly
        diffs == d.diffs
        rbOnly == d.rightOnly
    IN  IF foundDSStore THEN verdictDSStore
        ELSE IF up.CRLFCount > rb.CRLFCount THEN verdictLineEndings
        ELSE IF Len(upOnly) > 0 /\ Len(rbOnly) > 0 THEN verdictMismatchedFiles
        ELSE IF Len(upOnly) > 0 THEN verdictUpstreamOnly
        ELSE IF Len(rbOnly) > 0 THEN verdictRebuildOnly
        ELSE IF onlyMetadataDiffs THEN verdictWheelDiff
        ELSE IF Len(diffs) >= 0 THEN verdictContentDiff
        ELSE Nil

\* The switch of rebuild.go:68-85 over the summaries, their Diff d and the
\* two flags: the first case that holds decides.
VerdictSwitch(rb, up, d, foundDSStore, onlyMetadataDiffs) ==
    LET upOnly == d.leftOnly
        diffs == d.diffs
        rbOnly == d.rightOnly
    IN  IF foundDSStore THEN verdictDSStore
        ELSE IF up.CRLFCount > rb.CRLFCount THEN verdictLineEndings
        ELSE IF Len(upOnly) > 0 /\ Len(rbOnly) > 0 THEN verdictMismatchedFiles
        ELSE IF Len(upOnly) > 0 THEN verdictUpstreamOnly
        ELSE IF Len(rbOnly) > 0 THEN verdictRebuildOnly
        ELSE IF onlyMetadataDiffs THEN verdictWheelDiff
        ELSE IF Len(diffs) > 0 THEN verdictContentDiff
        ELSE Nil

\* compareTwoFiles after its first line (rebuild.go:58-85), d being the
\* three lists Diff returned.
ClassifyDiff(rb, up, d) ==
    LET upOnly == d.leftOnly
        diffs == d.diffs
        rbOnly == d.rightOnly
        foundDSStore == FoundDSStoreLoop(upOnly, 1, FALSE)
        onlyMetadataDiffs ==
            OnlyMetadataLoop(diffs, 1,
                Len(upOnly) = 0 /\ Len(rbOnly) = 0 /\ Len(diffs) > 0)
    IN  [verdict |-> VerdictSwitch(rb, up, d, foundDSStore, onlyMetadataDiffs),
         err |-> Nil]

compareTwoFiles(rb, up) == ClassifyDiff(rb, up, Diff(up, rb))

CompareInit ==
    /\ csRB \in ContentSummary
    /\ csUP \in ContentSummary
    /\ cmpPc = "call"
    /\ verdict = "unset"
    /\ cmpErr = "unset"
    /\ sumErr = NilError
    /\ retVerdict = "unset"
    /\ retErr = Unset

\* No comparison is under way.
CompareIdle ==
    /\ csRB = [Files |-> [p \in Paths |-> NoFile], CRLFCount |-> 0]
    /\ csUP = [Files |-> [p \in Paths |-> NoFile], CRLFCount |-> 0]
    /\ cmpPc = "idle"
    /\ verdict = "unset"
    /\ cmpErr = "unset"
    /\ sumErr = NilError
    /\ retVerdict = "unset"
    /\ retErr = Unset

\* One call of compareTwoFiles(csRB, csUP).
CompareTwoFiles ==
    /\ cmpPc = "call"
    /\ LET r == compareTwoFiles(csRB, csUP)
       IN  /\ verdict' = r.verdict
           /\ cmpErr' = r.err
    /\ cmpPc' = "done"
    /\ UNCHANGED <<csRB, csUP, sumErr, retVerdict, retErr>>
    /\ UNCHANGED <<rbVars, httpVars, pkgVars, manyVars>>

(***************************************************************************)
(* Rebuilder.Compare (rebuild.go:88-99): rebuild.Summarize makes the two   *)
(* summaries or fails; compareTwoFiles classifies them; Compare returns.   *)
(***************************************************************************)

\* The errors rebuild.Summarize can return: a missing asset, a read error.
SummarizeErrors == {<<"asset not found">>, <<"unexpected EOF">>}

\* CompareResult with the messages of the two Wrapf calls exchanged.
CompareResultSwapped(summarizeErr, v, err) ==
    IF summarizeErr # NilError
    THEN [verdict |-> Nil, err |-> Wrap(summarizeErr, "Failed to compare")]
    ELSE IF err # Nil
    THEN [verdict |-> Nil, err |-> Wrap(<<err>>, "summarizing assets")]
    ELSE [verdict |-> v, err |-> NilError]

\* What Compare returns, given Summarize's error and, when that is nil,
\* compareTwoFiles' two results.
CompareResult(summarizeErr, v, err) ==
    IF summarizeErr # NilError
    THEN [verdict |-> Nil, err |-> Wrap(summarizeErr, "summarizing assets")]
    ELSE IF err # Nil
    THEN [verdict |-> Nil, err |-> Wrap(<<err>>, "Failed to compare")]
    ELSE [verdict |-> v, err |-> NilError]

\* Compare has been called and is about to call rebuild.Summarize.
SummarizeInit ==
    /\ csRB = [Files |-> [p \in Paths |-> NoFile], CRLFCount |-> 0]
    /\ csUP = [Files |-> [p \in Paths |-> NoFile], CRLFCount |-> 0]
    /\ cmpPc = "summarize"
    /\ verdict = "unset"
    /\ cmpErr = "unset"
    /\ sumErr = NilError
    /\ retVerdict = "unset"
    /\ retErr = Unset

\* rebuild.Summarize returns the summaries of the two assets.
SummarizeOk ==
    /\ cmpPc = "summarize"
    /\ \E rb, up \in ContentSummary :
          /\ csRB' = rb
          /\ csUP' = up
    /\ cmpPc' = "call"
    /\ UNCHANGED <<verdict, cmpErr, sumErr, retVerdict, retErr>>
    /\ UNCHANGED <<rbVars, httpVars, pkgVars, manyVars>>

\* rebuild.Summarize returns err, and Compare returns (rebuild.go:90-92).
SummarizeFail(err) ==
    /\ cmpPc = "summarize"
    /\ sumErr' = err
    /\ LET r == CompareResult(err, verdict, cmpErr)
       IN  /\ retVerdict' = r.verdict
           /\ retErr' = r.err
    /\ cmpPc' = "returned"
    /\ UNCHANGED <<csRB, csUP, verdict, cmpErr>>
    /\ UNCHANGED <<rbVars, httpVars, pkgVars, manyVars>>

\* compareTwoFiles has returned, and Compare returns (rebuild.go:94-98).
CompareReturn ==
    /\ cmpPc = "done"
    /\ LET r == CompareResult(sumErr, verdict, cmpErr)
       IN  /\ retVerdict' = r.verdict
           /\ retErr' = r.err
    /\ cmpPc' = "returned"
    /\ UNCHANGED <<csRB, csUP, verdict, cmpErr, sumErr>>
    /\ UNCHANGED <<rbVars, httpVars, pkgVars, manyVars>>

(***************************************************************************)
(* Rebuilder.Rebuild (rebuild.go:32-43).  rebuild.ExecuteScript runs a     *)
(* script to its end and returns its error; the model splits each call     *)
(* into the script's start and its return, so that two scripts of one      *)
(* call running at once would show.  Rebuild calls for different attempts  *)
(* run independently of each other.                                        *)
(***************************************************************************)
NumAttempts == 2
Attempts == 1..NumAttempts

Phases == <<"Source", "Deps", "Build">>
PhaseSet == {Phases[i] : i \in 1..Len(Phases)}

\* The errors a script can end with.
ScriptErrors == {<<"exit status 1">>, <<"signal: killed">>}

\* PhaseContext with the Deps message copied from the Source branch.
PhaseContextCopied(phase) ==
    CASE phase = "Source" -> "fetching source"
      [] phase = "Deps"   -> "fetching source"
      [] phase = "Build"  -> "executing build"

\* The message each branch of Rebuild wraps its script's error with.
PhaseContext(phase) ==
    CASE phase = "Source" -> "fetching source"
      [] phase = "Deps"   -> "configuring build deps"
      [] phase = "Build"  -> "executing build"

\* AfterScript without the return in the Deps branch: Build runs after a
\* failing Deps.
AfterScriptNoReturn(phase, err) ==
    IF err # NilError /\ phase # "Deps"
    THEN [pc |-> "returned", err |-> Wrap(err, PhaseContext(phase))]
    ELSE IF phase = "Source" THEN [pc |-> "Deps", err |-> Unset]
    ELSE IF phase = "Deps" THEN [pc |-> "Build", err |-> Unset]
    ELSE [pc |-> "returned", err |-> NilError]

\* What Rebuild does when the script of `phase` has returned err: return the
\* wrapped error, go on to the next script, or return nil after the last.
AfterScript(phase, err) ==
    IF err # NilError
    THEN [pc |-> "returned", err |-> Wrap(err, PhaseContext(phase))]
    ELSE IF phase = "Source" THEN [pc |-> "Deps", err |-> Unset]
    ELSE IF phase = "Deps" THEN [pc |-> "Build", err |-> Unset]
    ELSE [pc |-> "returned", err |-> NilError]

RebuildInit ==
    /\ rbPc = [a \in Attempts |-> "Source"]
    /\ running = [a \in Attempts |-> {}]
    /\ started = [a \in Attempts |-> <<>>]
    /\ outcome = [a \in Attempts |-> <<>>]
    /\ rbErr = [a \in Attempts |-> Unset]

\* No Rebuild call is under way.
RebuildIdle ==
    /\ rbPc = [a \in Attempts |-> "idle"]
    /\ running = [a \in Attempts |-> {}]
    /\ started = [a \in Attempts |-> <<>>]
    /\ outcome = [a \in Attempts |-> <<>>]
    /\ rbErr = [a \in Attempts |-> Unset]

\* Rebuild calls rebuild.ExecuteScript for the phase it is at.
ExecuteScriptCall(a) ==
    /\ rbPc[a] \in PhaseSet
    /\ rbPc[a] \notin running[a]
    /\ Len(started[a]) = Len(outcome[a])
    /\ running' = [running EXCEPT ![a] = @ \cup {rbPc[a]}]
    /\ started' = [started EXCEPT ![a] = Append(@, rbPc[a])]
    /\ UNCHANGED <<rbPc, outcome, rbErr>>
    /\ UNCHANGED <<cmpVars, httpVars, pkgVars, manyVars>>

\* The script returns err, and Rebuild returns or goes on.
ExecuteScriptReturn(a, err) ==
    /\ rbPc[a] \in running[a]
    /\ LET next == AfterScript(rbPc[a], err)
       IN  /\ rbPc' = [rbPc EXCEPT ![a] = next.pc]
           /\ rbErr' = [rbErr EXCEPT ![a] = next.err]
    /\ running' = [running EXCEPT ![a] = @ \ {rbPc[a]}]
    /\ outcome' = [outcome EXCEPT ![a] = Append(@, err)]
    /\ UNCHANGED started
    /\ UNCHANGED <<cmpVars, httpVars, pkgVars, manyVars>>

(***************************************************************************)
(* CachedClient.Do.  The underlying BasicClient (http.DefaultClient, for   *)
(* one) answers a request with an error or a response; the model draws the *)
(* answer from Answers.  A response is a record; its Body is what reading  *)
(* the body stream to its end delivers, and BodyErr the error that reading *)
(* ends with.  Each Do returns a response with a stream of its own.        *)
(***************************************************************************)
NumCallers == 2
Callers == 1..NumCallers
MaxDo == 2

URLs == {"https://pypi.org/a", "https://pypi.org/b"}
Methods == {"GET", "HEAD", "POST"}
MethodGet == "GET"
MethodHead == "HEAD"
StatusOK == 200

\* The versions of a resource the server may hold, and the body of each.
Versions == {"v1", "v2"}
Content(v) == IF v = "v1" THEN <<"f", "o", "o">> ELSE <<"b", "a", "r", "!">>

\* The point-in-time constraint a request is issued under in time-warp mode;
\* NoTimewarp for a request issued without one.  The constraint is not part
\* of the URL: the key format of section 6 is the URL "extended with" it.
NoTimewarp == ""
Timewarps == {NoTimewarp, "2024-01-01", "2024-06-01"}

NoRequest == [Method |-> "", URL |-> "", Timewarp |-> NoTimewarp]
NoResponse ==
    [StatusCode |-> 0, Status |-> "", ETag |-> "", ContentLength |-> 0,
     Body |-> <<>>, BodyErr |-> Nil, Method |-> ""]
NoResult == [resp |-> NoResponse, err |-> "unset"]

\* What the underlying client returns for a request: a transport error, a
\* 404, or a 200 for some version of the resource.  The answer to a HEAD
\* request has the resource's Content-Length and no body.
Answer200(r, v) ==
    [resp |-> [StatusCode |-> StatusOK, Status |-> "OK", ETag |-> v,
               ContentLength |-> Len(Content(v)),
               Body |-> IF r.Method = MethodHead THEN <<>> ELSE Content(v),
               BodyErr |-> Nil, Method |-> r.Method],
     err |-> Nil]
Answer404(r) ==
    [resp |-> [StatusCode |-> 404, Status |-> "Not Found", ETag |-> "",
               ContentLength |-> 0, Body |-> <<>>, BodyErr |-> Nil,
               Method |-> r.Method],
     err |-> Nil]
AnswerError == [resp |-> NoResponse, err |-> "connection refused"]
Answers(r) ==
    {AnswerError, Answer404(r)} \cup {Answer200(r, v) : v \in Versions}

\* resp.Write: the status line, the headers and, unless the response answers
\* a HEAD request, the body.
WriteResponse(resp) ==
    <<"HTTP/1.1", resp.StatusCode, resp.Status, "ETag", resp.ETag,
      "Content-Length", resp.ContentLength, "">>
      \o (IF resp.Method = MethodHead THEN <<>> ELSE resp.Body)

\* http.ReadResponse(bytes, r): the status line and the headers, then for a
\* request other than HEAD a body of Content-Length bytes, cut short with an
\* error if the bytes end before.
ReadResponse(bytes, r) ==
    LET n == bytes[7]
        rest == SubSeq(bytes, 9, Len(bytes))
        noBody == r.Method = MethodHead
    IN  [resp |-> [StatusCode |-> bytes[2], Status |-> bytes[3],
                   ETag |-> bytes[5], ContentLength |-> n,
                   Body |-> IF noBody THEN <<>>
                            ELSE IF Len(rest) < n THEN rest
                            ELSE SubSeq(rest, 1, n),
                   BodyErr |-> IF ~noBody /\ Len(rest) < n
                               THEN "unexpected EOF" ELSE Nil,
                   Method |-> r.Method],
         err |-> Nil]

\* IsCacheable without the early return: every method goes to the cache.
IsCacheableAny(method) == TRUE

\* IsCacheable for HEAD alone.
IsCacheableHeadOnly(method) == method = MethodHead

\* The test of part_000:61, negated: the methods Do serves from the cache.
IsCacheable(method) == ~(method # MethodGet /\ method # MethodHead)

\* The key Do gives to GetOrSet: req.URL.String().
CacheKey(r) == r.URL

\* FetchValue without the status test: any response is stored.
FetchValueAnyStatus(out) ==
    IF out.err # Nil THEN [value |-> <<>>, err |-> out.err]
    ELSE [value |-> WriteResponse(out.resp), err |-> Nil]

\* The function Do gives to GetOrSet (part_000:64-78), on the underlying
\* client's answer `out`: the bytes to store, or an error.
FetchValue(out) ==
    IF out.err # Nil THEN [value |-> <<>>, err |-> out.err]
    ELSE IF out.resp.StatusCode # StatusOK
         THEN [value |-> <<>>, err |-> out.resp.Status]
    ELSE [value |-> WriteResponse(out.resp), err |-> Nil]

\* What Do returns after GetOrSet returned v (part_000:79-82).
DoResult(v, r) ==
    IF v.err # Nil THEN [resp |-> NoResponse, err |-> v.err]
    ELSE ReadResponse(v.value, r)

NoEntry == <<>>

(***************************************************************************)
(* cache.Cache, as section 4.1 of the specification gives GetOrSet: a      *)
(* cached key returns its value; otherwise one caller per key runs the     *)
(* function while the others block and get its result; an error is not     *)
(* stored.                                                                 *)
(***************************************************************************)
Cached(k) == store[k] # NoEntry
InFlight(k) == flight[k] # 0
StoreAfter(k, v) == [store EXCEPT ![k] = IF v.err = Nil THEN v.value ELSE @]
\* The callers blocked on key k.
Waiters(k) == {q \in Callers : pc[q] = "wait" /\ CacheKey(req[q]) = k}

HttpInit ==
    /\ pc = [p \in Callers |-> "idle"]
    /\ req = [p \in Callers |-> NoRequest]
    /\ res = [p \in Callers |-> NoResult]
    /\ bodyRead = [p \in Callers |-> FALSE]
    /\ role = [p \in Callers |-> ""]
    /\ store = [k \in URLs |-> NoEntry]
    /\ flight = [k \in URLs |-> 0]
    /\ calls = [u \in URLs |-> <<>>]
    /\ dos = 0
    /\ getOrSets = 0
    /\ first = [u \in URLs |-> NoResult]

\* No request is under way.
HttpIdle == HttpInit

\* calls, after the underlying client answered request r with out.
NoteCall(r, out) ==
    [calls EXCEPT ![r.URL] =
        Append(@, [Method |-> r.Method, Timewarp |-> r.Timewarp,
                   out |-> out])]

\* first, once Do has returned result to a GET/HEAD of url.
NoteFirst(url, result) ==
    IF first[url] = NoResult /\ result.err = Nil
    THEN [first EXCEPT ![url] = result] ELSE first

\* Do for a method that is not cached: the underlying client's answer is
\* returned as it is (part_000:61-63).
DoBypass(p, r, out) ==
    /\ pc[p] = "idle"
    /\ dos < MaxDo
    /\ ~IsCacheable(r.Method)
    /\ out \in Answers(r)
    /\ pc' = [pc EXCEPT ![p] = "returned"]
    /\ req' = [req EXCEPT ![p] = r]
    /\ res' = [res EXCEPT ![p] = out]
    /\ role' = [role EXCEPT ![p] = "bypass"]
    /\ calls' = NoteCall(r, out)
    /\ dos' = dos + 1
    /\ UNCHANGED <<bodyRead, store, flight, getOrSets, first>>
    /\ UNCHANGED <<cmpVars, rbVars, pkgVars, manyVars>>

\* Do for GET or HEAD, GetOrSet finding the key cached: the stored bytes are
\* parsed into a new response.
DoHit(p, r) ==
    /\ pc[p] = "idle"
    /\ dos < MaxDo
    /\ IsCacheable(r.Method)
    /\ Cached(CacheKey(r))
    /\ LET result == DoResult([value |-> store[CacheKey(r)], err |-> Nil], r)
       IN  /\ res' = [res EXCEPT ![p] = result]
           /\ first' = NoteFirst(r.URL, result)
    /\ pc' = [pc EXCEPT ![p] = "returned"]
    /\ req' = [req EXCEPT ![p] = r]
    /\ role' = [role EXCEPT ![p] = "hit"]
    /\ dos' = dos + 1
    /\ getOrSets' = getOrSets + 1
    /\ UNCHANGED <<bodyRead, store, flight, calls>>
    /\ UNCHANGED <<cmpVars, rbVars, pkgVars, manyVars>>

\* Do for GET or HEAD, GetOrSet finding the key neither cached nor being
\* computed: this caller runs the function.
DoLead(p, r) ==
    /\ pc[p] = "idle"
    /\ dos < MaxDo
    /\ IsCacheable(r.Method)
    /\ ~Cached(CacheKey(r))
    /\ ~InFlight(CacheKey(r))
    /\ pc' = [pc EXCEPT ![p] = "compute"]
    /\ req' = [req EXCEPT ![p] = r]
    /\ role' = [role EXCEPT ![p] = "leader"]
    /\ flight' = [flight EXCEPT ![CacheKey(r)] = p]
    /\ dos' = dos + 1
    /\ getOrSets' = getOrSets + 1
    /\ UNCHANGED <<res, bodyRead, store, calls, first>>
    /\ UNCHANGED <<cmpVars, rbVars, pkgVars, manyVars>>

\* Do for GET or HEAD, GetOrSet finding the key being computed by another
\* caller: this caller blocks until that computation ends.
DoWait(p, r) ==
    /\ pc[p] = "idle"
    /\ dos < MaxDo
    /\ IsCacheable(r.Method)
    /\ ~Cached(CacheKey(r))
    /\ InFlight(CacheKey(r))
    /\ pc' = [pc EXCEPT ![p] = "wait"]
    /\ req' = [req EXCEPT ![p] = r]
    /\ role' = [role EXCEPT ![p] = "waiter"]
    /\ dos' = dos + 1
    /\ getOrSets' = getOrSets + 1
    /\ UNCHANGED <<res, bodyRead, store, flight, calls, first>>
    /\ UNCHANGED <<cmpVars, rbVars, pkgVars, manyVars>>

\* The function given to GetOrSet calls the underlying client and ends: its
\* value is stored unless it is an error, and the caller and every caller
\* blocked on the key get the value or the error.
Fetch(p, out) ==
    /\ pc[p] = "compute"
    /\ out \in Answers(req[p])
    /\ LET k == CacheKey(req[p])
           v == FetchValue(out)
           served == Waiters(k) \cup {p}
       IN  /\ store' = StoreAfter(k, v)
           /\ flight' = [flight EXCEPT ![k] = 0]
           /\ pc' = [q \in Callers |->
                        IF q \in served THEN "returned" ELSE pc[q]]
           /\ res' = [q \in Callers |->
                        IF q \in served THEN DoResult(v, req[q]) ELSE res[q]]
           /\ first' = NoteFirst(req[p].URL, DoResult(v, req[p]))
    /\ calls' = NoteCall(req[p], out)
    /\ UNCHANGED <<req, bodyRead, role, dos, getOrSets>>
    /\ UNCHANGED <<cmpVars, rbVars, pkgVars, manyVars>>

\* The caller reads the body stream of its response to the end.
ReadBody(p) ==
    /\ pc[p] = "returned"
    /\ res[p].err = Nil
    /\ ~bodyRead[p]
    /\ bodyRead' = [bodyRead EXCEPT ![p] = TRUE]
    /\ UNCHANGED <<pc, req, res, role, store, flight, calls, dos, getOrSets,
                   first>>
    /\ UNCHANGED <<cmpVars, rbVars, pkgVars, manyVars>>

\* The caller is done with its response.
Finish(p) ==
    /\ pc[p] = "returned"
    /\ pc' = [pc EXCEPT ![p] = "idle"]
    /\ req' = [req EXCEPT ![p] = NoRequest]
    /\ res' = [res EXCEPT ![p] = NoResult]
    /\ bodyRead' = [bodyRead EXCEPT ![p] = FALSE]
    /\ role' = [role EXCEPT ![p] = ""]
    /\ UNCHANGED <<store, flight, calls, dos, getOrSets, first>>
    /\ UNCHANGED <<cmpVars, rbVars, pkgVars, manyVars>>

(***************************************************************************)
(* rebuildPackage, as TestRebuildPackage drives it and as sections 4.5 and *)
(* 4.6 of the specification give it: the build is submitted to the remote  *)
(* execution service and polled to its end; the rebuilt artifact is        *)
(* compared with the upstream one; the artifact, the build specification   *)
(* and the BuildInfo are written to the local metadata store; the signed   *)
(* statements are written to the Target's attestation bundle.  Requests    *)
(* run independently of each other and share the two stores.               *)
(***************************************************************************)
NumRequests == 2
PkgRequests == 1..NumRequests

\* The Targets of the test's requests, one per ecosystem.
TargetPyPI ==
    [Ecosystem |-> "pypi", Package |-> "absl-py", Version |-> "2.0.0",
     Artifact |-> "absl_py-2.0.0-py3-none-any.whl"]
TargetCratesIO ==
    [Ecosystem |-> "cratesio", Package |-> "serde", Version |-> "1.0.150",
     Artifact |-> "serde-1.0.150.crate"]
TargetNPM ==
    [Ecosystem |-> "npm", Package |-> "express", Version |-> "4.18.2",
     Artifact |-> "express-4.18.2.tgz"]
TargetDebian ==
    [Ecosystem |-> "debian", Package |-> "main/xz-utils",
     Version |-> "5.2.4-1+b1", Artifact |-> "xz-utils_5.2.4-1+b1_amd64.deb"]
Targets == {TargetPyPI, TargetCratesIO, TargetNPM, TargetDebian}

\* The steps of a build: each names its image and has a script.
MaxSteps == 2
StepNames == {"gcr.io/foo/bar", "gcr.io/foo/baz"}
BuildStep == [Name : StepNames, Script : {"./bar"}]
BuildSteps == UNION {[1..n -> BuildStep] : n \in 1..MaxSteps}

\* The digests an image name can resolve to when the build runs.
Digests == {"sha256:abcd", "sha256:ef01"}

\* The steps of the test's build.
TestBuildSteps == << [Name |-> "gcr.io/foo/bar", Script |-> "./bar"] >>

\* The digest the test's step image resolves to.
TestResolved == [n \in StepNames |-> "sha256:abcd"]

\* The identifiers the service gives to builds.
BuildIds == {"build-id", "build-id-2", "build-id-3"}

\* The identifier of each request's build when every request submits one:
\* the service gives no identifier twice.
BuildIdOf(a) ==
    IF a = 1 THEN "build-id" ELSE IF a = 2 THEN "build-id-2" ELSE "build-id-3"

NoJob ==
    [Id |-> "", Done |-> FALSE, Status |-> "", Steps |-> <<>>,
     BuildStepImages |-> <<>>]

\* CreateBuild: the operation the service returns for a submitted build; it
\* is not done.
CreateBuild(id, steps) ==
    [Id |-> id, Done |-> FALSE, Status |-> "QUEUED", Steps |-> steps,
     BuildStepImages |-> <<>>]

\* WaitForOperation: the operation at its end, with the build's status and,
\* after a success, the digest each step's image resolved to, in step order.
WaitForOperation(op, status, resolved) ==
    [op EXCEPT !.Done = TRUE,
               !.Status = status,
               !.BuildStepImages =
                   IF status = "SUCCESS"
                   THEN [i \in 1..Len(op.Steps) |-> resolved[op.Steps[i].Name]]
                   ELSE <<>>]

\* BuildImagesLoop pairing every step name with the first digest.
RECURSIVE BuildImagesLoopFirst(_, _, _, _)
BuildImagesLoopFirst(steps, images, i, m) ==
    IF i > Len(steps) THEN m
    ELSE BuildImagesLoopFirst(steps, images, i + 1,
                              (steps[i].Name :> images[1]) @@ m)

\* BuildInfo.BuildImages, a map from step name to digest: the i-th step's
\* name is given the i-th digest, from step i on, m being the map so far.
RECURSIVE BuildImagesLoop(_, _, _, _)
BuildImagesLoop(steps, images, i, m) ==
    IF i > Len(steps) THEN m
    ELSE BuildImagesLoop(steps, images, i + 1,
                         (steps[i].Name :> images[i]) @@ m)

\* The BuildInfo of a build that ended.
ToBuildInfo(t, op) ==
    [Target |-> t,
     BuildID |-> op.Id,
     BuildImages |-> BuildImagesLoop(op.Steps, op.BuildStepImages, 1, <<>>),
     Steps |-> op.Steps]

\* The asset types of the local metadata store.
AssetTypes == {"RebuildArtifact", "Dockerfile", "BuildInfo"}
Assets == AssetTypes \X Targets

\* A store holds under a key nothing or one content.
NoAsset == <<>>

\* FakeSigner: its signature and its key.
Sign(data) == "just trust me"
KeyID == "fake"

\* The summary of an archive with the single file "foo" of hash h.
FooSummary(h) ==
    [Files |-> [p \in Paths |-> IF p = PathFoo THEN h ELSE NoFile],
     CRLFCount |-> 0]

\* The statements of an attempt: the build-provenance statement and the
\* verdict statement.
Statements(t, bi, v) ==
    << [Type |-> "provenance", Subject |-> t.Artifact, Detail |-> bi.BuildID],
       [Type |-> "verdict", Subject |-> t.Artifact, Detail |-> v] >>

\* A signed statement as one line of the bundle: the envelope's fields and a
\* newline.
EnvelopeLine(st) ==
    <<"{", st.Type, st.Subject, st.Detail, Sign(st), KeyID, "}", "\n">>

\* WriteBundle appending to the bundle already stored.
RECURSIVE WriteBundleAppend(_, _)
WriteBundleAppend(old, sts) ==
    IF sts = <<>> THEN old
    ELSE WriteBundleAppend(old \o EnvelopeLine(Head(sts)), Tail(sts))

\* The bytes of the bundle asset an attempt writes over what the store held
\* (old): its signed statements, one per line.
RECURSIVE WriteBundle(_, _)
WriteBundle(old, sts) ==
    IF sts = <<>> THEN <<>>
    ELSE EnvelopeLine(Head(sts)) \o WriteBundle(old, Tail(sts))

\* mustJSONL: the objects of a newline-delimited stream, from byte i on.
RECURSIVE mustJSONL(_, _, _)
mustJSONL(bytes, i, ts) ==
    IF i > Len(bytes) THEN ts
    ELSE IF bytes[i] = "{"
         THEN LET j == CHOOSE k \in i..Len(bytes) :
                           /\ bytes[k] = "}"
                           /\ \A l \in i..(k - 1) : bytes[l] # "}"
              IN  mustJSONL(bytes, j + 1,
                            Append(ts, SubSeq(bytes, i + 1, j - 1)))
         ELSE mustJSONL(bytes, i + 1, ts)

PackageInit ==
    /\ pkPc = [a \in PkgRequests |-> "submit"]
    /\ pkTarget \in [PkgRequests -> Targets]
    /\ job = [a \in PkgRequests |-> NoJob]
    /\ pkVerdict = [a \in PkgRequests |-> "unset"]
    /\ pkErr = [a \in PkgRequests |-> "unset"]
    /\ localMetadata = [k \in Assets |-> NoAsset]
    /\ attestationStore = [t \in Targets |-> NoAsset]
    /\ overwriteAttestations \in BOOLEAN

\* One request is served, the others are not made.
RemoteBuildInit ==
    /\ pkPc = [a \in PkgRequests |-> IF a = 1 THEN "submit" ELSE "idle"]
    /\ pkTarget \in [PkgRequests -> Targets]
    /\ \A a \in PkgRequests \ {1} : pkTarget[a] = TargetPyPI
    /\ job = [a \in PkgRequests |-> NoJob]
    /\ pkVerdict = [a \in PkgRequests |-> "unset"]
    /\ pkErr = [a \in PkgRequests |-> "unset"]
    /\ localMetadata = [k \in Assets |-> NoAsset]
    /\ attestationStore = [t \in Targets |-> NoAsset]
    /\ overwriteAttestations \in BOOLEAN

\* No request is being served.
PackageIdle ==
    /\ pkPc = [a \in PkgRequests |-> "idle"]
    /\ pkTarget = [a \in PkgRequests |-> TargetPyPI]
    /\ job = [a \in PkgRequests |-> NoJob]
    /\ pkVerdict = [a \in PkgRequests |-> "unset"]
    /\ pkErr = [a \in PkgRequests |-> "unset"]
    /\ localMetadata = [k \in Assets |-> NoAsset]
    /\ attestationStore = [t \in Targets |-> NoAsset]
    /\ overwriteAttestations = FALSE

\* The build is submitted: the service returns an operation that is not done.
Submit(a, steps, id) ==
    /\ pkPc[a] = "submit"
    /\ job' = [job EXCEPT ![a] = CreateBuild(id, steps)]
    /\ pkPc' = [pkPc EXCEPT ![a] = "poll"]
    /\ UNCHANGED <<pkTarget, pkVerdict, pkErr, localMetadata,
                   attestationStore, overwriteAttestations>>
    /\ UNCHANGED <<cmpVars, rbVars, httpVars, manyVars>>

\* The poll returns the operation at its end; a failed build is surfaced as
\* an error.
Poll(a, status, resolved) ==
    /\ pkPc[a] = "poll"
    /\ job' = [job EXCEPT ![a] = WaitForOperation(@, status, resolved)]
    /\ IF status = "SUCCESS"
       THEN /\ pkPc' = [pkPc EXCEPT ![a] = "compare"]
            /\ UNCHANGED pkErr
       ELSE /\ pkPc' = [pkPc EXCEPT ![a] = "done"]
            /\ pkErr' = [pkErr EXCEPT ![a] = "build failed"]
    /\ UNCHANGED <<pkTarget, pkVerdict, localMetadata, attestationStore,
                   overwriteAttestations>>
    /\ UNCHANGED <<cmpVars, rbVars, httpVars, manyVars>>

\* The rebuilt artifact, whose file has hash h, is compared with the upstream
\* one.
ComparePackage(a, h) ==
    /\ pkPc[a] = "compare"
    /\ pkVerdict' = [pkVerdict EXCEPT ![a] =
           CompareResult(NilError,
               compareTwoFiles(FooSummary(h), FooSummary("h1")).verdict,
               compareTwoFiles(FooSummary(h), FooSummary("h1")).err).verdict]
    /\ pkPc' = [pkPc EXCEPT ![a] = "persist"]
    /\ UNCHANGED <<pkTarget, job, pkErr, localMetadata, attestationStore,
                   overwriteAttestations>>
    /\ UNCHANGED <<cmpVars, rbVars, httpVars, manyVars>>

\* The artifact, the build specification and the BuildInfo are written to
\* the local metadata store (section 4.6, steps 1 and 2).
Persist(a) ==
    /\ pkPc[a] = "persist"
    /\ LET t == pkTarget[a]
       IN  localMetadata' =
               [localMetadata EXCEPT
                   ![<<"RebuildArtifact", t>>] = <<t.Artifact>>,
                   ![<<"Dockerfile", t>>] = <<"FROM">>,
                   ![<<"BuildInfo", t>>] = <<ToBuildInfo(t, job[a])>>]
    /\ pkPc' = [pkPc EXCEPT ![a] = "attest"]
    /\ UNCHANGED <<pkTarget, job, pkVerdict, pkErr, attestationStore,
                   overwriteAttestations>>
    /\ UNCHANGED <<cmpVars, rbVars, httpVars, manyVars>>

\* The statements are signed and written to the Target's bundle (section
\* 4.6, steps 3 to 5): a bundle already there is replaced when
\* OverwriteAttestations is set and is a conflict when it is not.
Attest(a) ==
    /\ pkPc[a] = "attest"
    /\ LET t == pkTarget[a]
           bi == ToBuildInfo(t, job[a])
       IN  IF ~overwriteAttestations /\ attestationStore[t] # NoAsset
           THEN /\ pkErr' = [pkErr EXCEPT ![a] = "conflict"]
                /\ UNCHANGED attestationStore
           ELSE /\ pkErr' = [pkErr EXCEPT ![a] = Nil]
                /\ attestationStore' =
                       [attestationStore EXCEPT
                           ![t] = WriteBundle(@, Statements(t, bi, pkVerdict[a]))]
    /\ pkPc' = [pkPc EXCEPT ![a] = "done"]
    /\ UNCHANGED <<pkTarget, job, pkVerdict, localMetadata,
                   overwriteAttestations>>
    /\ UNCHANGED <<cmpVars, rbVars, httpVars, manyVars>>

(***************************************************************************)
(* pypi.RebuildMany (rebuild.go:102-120).  The registry answers the        *)
(* project lookup with an error or with the project's releases: for each   *)
(* version the files published, in order.  A file's name is modelled by    *)
(* its parts: package, version and the rest.  rebuild.RebuildMany, the     *)
(* shared batch rebuild, rebuilds the inputs it is handed in any order and *)
(* returns their verdicts in input order (section 5).                      *)
(***************************************************************************)
MaxInputs == 2

Packages == {"absl-py", "six"}
PkgVersions == {"1.0.0", "2.0.0"}

\* rebuild.Input, with no artifact named yet.
Inputs ==
    [Target : [Ecosystem : {"pypi"}, Package : Packages,
               Version : PkgVersions, Artifact : {<<>>}],
     Strategy : {"PureWheelBuild"}]
InputLists == UNION {[1..n -> Inputs] : n \in 0..MaxInputs}

\* The files a release can have, by the end of their names.
PureWheelTag == "py3-none-any.whl"
ReleaseFiles == {<<>>, <<"tar.gz">>, <<"tar.gz", "py3-none-any.whl">>}

\* The project of package pkg whose release of version v has the files
\* files[v].
Project(pkg, files) ==
    [Releases |->
        [v \in PkgVersions |->
            [i \in 1..Len(files[v]) |-> [Filename |-> <<pkg, v, files[v][i]>>]]]]

\* What mux.PyPI.Project returns for a package: a project or an error.
Lookups(pkg) ==
    {[project |-> Project(pkg, files), err |-> NilError] :
        files \in [PkgVersions -> ReleaseFiles]}
    \cup {[project |-> Project(pkg, [v \in PkgVersions |-> <<>>]),
           err |-> <<"pypi registry error: 404 Not Found">>]}

\* FindPureWheel: the first file that is a none-any wheel, from file i on.
RECURSIVE FindPureWheel(_, _)
FindPureWheel(artifacts, i) ==
    IF i > Len(artifacts)
    THEN [artifact |-> [Filename |-> <<>>], err |-> <<"no pure wheel found">>]
    ELSE IF artifacts[i].Filename[3] = PureWheelTag
    THEN [artifact |-> artifacts[i], err |-> NilError]
    ELSE FindPureWheel(artifacts, i + 1)

\* ReleaseOf taking the first input's version for every input.
ReleaseOfFirst(project, ins, i) == project.Releases[ins[1].Target.Version]

\* project.Releases[inputs[i].Target.Version] (rebuild.go:113).
ReleaseOf(project, ins, i) == project.Releases[ins[i].Target.Version]

\* SetArtifact taking the package from the file's name as well.
SetArtifactAndPackage(in, filename) ==
    [in EXCEPT !.Target.Artifact = filename, !.Target.Package = filename[1]]

\* inputs[i].Target.Artifact = a.Filename (rebuild.go:117).
SetArtifact(in, filename) == [in EXCEPT !.Target.Artifact = filename]

\* ResolveLoop going on to the next input after one without a wheel.
RECURSIVE ResolveLoopContinue(_, _, _)
ResolveLoopContinue(ins, project, i) ==
    IF i > Len(ins) THEN [inputs |-> ins, err |-> NilError]
    ELSE LET f == FindPureWheel(ReleaseOf(project, ins, i), 1)
         IN  IF f.err # NilError
             THEN ResolveLoopContinue(ins, project, i + 1)
             ELSE ResolveLoopContinue(
                      [ins EXCEPT ![i] = SetArtifact(@, f.artifact.Filename)],
                      project, i + 1)

\* The loop of rebuild.go:112-118 from input i on: the inputs as the loop
\* leaves them, and the error it returns with.
RECURSIVE ResolveLoop(_, _, _)
ResolveLoop(ins, project, i) ==
    IF i > Len(ins) THEN [inputs |-> ins, err |-> NilError]
    ELSE LET f == FindPureWheel(ReleaseOf(project, ins, i), 1)
         IN  IF f.err # NilError
             THEN [inputs |-> ins,
                   err |-> <<ins[i].Target.Version,
                             " does not have a none-any wheel">>]
             ELSE ResolveLoop(
                      [ins EXCEPT ![i] = SetArtifact(@, f.artifact.Filename)],
                      project, i + 1)

\* pypi.RebuildMany up to its last line: the inputs as it leaves them and
\* the error it returns before the batch rebuild, if any.
ResolveInputs(ins, reg) ==
    IF Len(ins) = 0
    THEN [inputs |-> ins, err |-> <<"no inputs provided">>]
    ELSE LET l == reg[ins[1].Target.Package]
         IN  IF l.err # NilError
             THEN [inputs |-> ins, err |-> l.err]
             ELSE ResolveLoop(ins, l.project, 1)

\* The messages of a rebuild's verdict: none, or a mismatch.
VerdictMessages == {"", "rebuild content mismatch"}

NoVerdict == [Target |-> <<>>, Message |-> "unset"]

ManyInit ==
    /\ manyPc = "call"
    /\ given \in InputLists
    /\ inputs = given
    /\ registry \in {r \in [Packages -> UNION {Lookups(p) : p \in Packages}] :
                        \A p \in Packages : r[p] \in Lookups(p)}
    /\ handed = <<>>
    /\ order = <<>>
    /\ verdicts = <<>>
    /\ manyRet = [verdicts |-> <<>>, err |-> Unset]
    /\ batchCalls = 0

\* RebuildMany is not called.
ManyIdle ==
    /\ manyPc = "idle"
    /\ given = <<>>
    /\ inputs = <<>>
    /\ registry = <<>>
    /\ handed = <<>>
    /\ order = <<>>
    /\ verdicts = <<>>
    /\ manyRet = [verdicts |-> <<>>, err |-> Unset]
    /\ batchCalls = 0

\* pypi.RebuildMany from its call to its return with an error or to its call
\* of rebuild.RebuildMany.
ResolveAndHand ==
    /\ manyPc = "call"
    /\ LET r == ResolveInputs(inputs, registry)
       IN  /\ inputs' = r.inputs
           /\ IF r.err # NilError
              THEN /\ manyRet' = [verdicts |-> <<>>, err |-> r.err]
                   /\ manyPc' = "returned"
                   /\ UNCHANGED <<handed, verdicts, batchCalls>>
              ELSE /\ handed' = r.inputs
                   /\ verdicts' = [i \in 1..Len(r.inputs) |-> NoVerdict]
                   /\ batchCalls' = batchCalls + 1
                   /\ manyPc' = "batch"
                   /\ UNCHANGED manyRet
    /\ UNCHANGED <<given, registry, order>>
    /\ UNCHANGED <<cmpVars, rbVars, httpVars, pkgVars>>

\* rebuild.RebuildMany rebuilds and compares one more input, any of those
\* left, and puts its verdict in the input's place.
BatchRebuildOne(i, message) ==
    /\ manyPc = "batch"
    /\ i \in 1..Len(handed)
    /\ verdicts[i] = NoVerdict
    /\ verdicts' = [verdicts EXCEPT
                       ![i] = [Target |-> handed[i].Target,
                               Message |-> message]]
    /\ order' = Append(order, i)
    /\ UNCHANGED <<manyPc, given, inputs, registry, handed, manyRet,
                   batchCalls>>
    /\ UNCHANGED <<cmpVars, rbVars, httpVars, pkgVars>>

\* rebuild.RebuildMany returns the verdicts, and pypi.RebuildMany returns
\* what it returned (rebuild.go:119).
BatchReturn ==
    /\ manyPc = "batch"
    /\ Len(order) = Len(handed)
    /\ manyRet' = [verdicts |-> verdicts, err |-> NilError]
    /\ manyPc' = "returned"
    /\ UNCHANGED <<given, inputs, registry, handed, order, verdicts,
                   batchCalls>>
    /\ UNCHANGED <<cmpVars, rbVars, httpVars, pkgVars>>

\* The requests made outside time-warp mode.
Requests == [Method : Methods, URL : URLs, Timewarp : {NoTimewarp}]

\* The requests made with time-warp mode active (RebuildRemote sets
\* opts.UseTimewarp) or not: each under a constraint or under none.
TimewarpRequests == [Method : Methods, URL : URLs, Timewarp : Timewarps]

InitHttp == CompareIdle /\ RebuildIdle /\ HttpInit /\ PackageIdle /\ ManyIdle

NextHttp ==
    \E p \in Callers :
        \/ \E r \in Requests :
              \/ \E out \in Answers(r) : DoBypass(p, r, out)
              \/ DoHit(p, r)
              \/ DoLead(p, r)
              \/ DoWait(p, r)
        \/ \E out \in Answers(req[p]) : Fetch(p, out)
        \/ ReadBody(p)
        \/ Finish(p)

SpecHttp == InitHttp /\ [][NextHttp]_vars

InitTimewarp == CompareIdle /\ RebuildIdle /\ HttpInit /\ PackageIdle /\ ManyIdle

NextTimewarp ==
    \E p \in Callers :
        \/ \E r \in TimewarpRequests :
              \/ \E out \in Answers(r) : DoBypass(p, r, out)
              \/ DoHit(p, r)
              \/ DoLead(p, r)
              \/ DoWait(p, r)
        \/ \E out \in Answers(req[p]) : Fetch(p, out)
        \/ ReadBody(p)
        \/ Finish(p)

SpecTimewarp == InitTimewarp /\ [][NextTimewarp]_vars

InitRebuild == CompareIdle /\ RebuildInit /\ HttpIdle /\ PackageIdle /\ ManyIdle

NextRebuild ==
    \E a \in Attempts :
        \/ ExecuteScriptCall(a)
        \/ \E err \in ScriptErrors \cup {NilError} : ExecuteScriptReturn(a, err)

SpecRebuild == InitRebuild /\ [][NextRebuild]_vars

InitCompare == CompareInit /\ RebuildIdle /\ HttpIdle /\ PackageIdle /\ ManyIdle

NextCompare == CompareTwoFiles

SpecCompare == InitCompare /\ [][NextCompare]_vars

InitSummarize == SummarizeInit /\ RebuildIdle /\ HttpIdle /\ PackageIdle /\ ManyIdle

NextSummarize ==
    \/ SummarizeOk
    \/ \E err \in SummarizeErrors : SummarizeFail(err)
    \/ CompareTwoFiles
    \/ CompareReturn

SpecSummarize == InitSummarize /\ [][NextSummarize]_vars

InitPackage == CompareIdle /\ RebuildIdle /\ HttpIdle /\ PackageInit /\ ManyIdle

\* Concurrent requests, each with the build of the test.
NextPackage ==
    \E a \in PkgRequests :
        \/ Submit(a, TestBuildSteps, BuildIdOf(a))
        \/ \E status \in {"SUCCESS", "FAILURE"} : Poll(a, status, TestResolved)
        \/ \E h \in Hashes : ComparePackage(a, h)
        \/ Persist(a)
        \/ Attest(a)

SpecPackage == InitPackage /\ [][NextPackage]_vars

InitRemoteBuild == CompareIdle /\ RebuildIdle /\ HttpIdle /\ RemoteBuildInit /\ ManyIdle

\* One request, with any build of up to MaxSteps steps.
NextRemoteBuild ==
    \E a \in PkgRequests :
        \/ \E steps \in BuildSteps : \E id \in BuildIds : Submit(a, steps, id)
        \/ \E status \in {"SUCCESS", "FAILURE"} :
              \E resolved \in [StepNames -> Digests] : Poll(a, status, resolved)
        \/ \E h \in Hashes : ComparePackage(a, h)
        \/ Persist(a)
        \/ Attest(a)

SpecRemoteBuild == InitRemoteBuild /\ [][NextRemoteBuild]_vars

InitMany == CompareIdle /\ RebuildIdle /\ HttpIdle /\ PackageIdle /\ ManyInit

NextMany ==
    \/ ResolveAndHand
    \/ \E i \in 1..MaxInputs : \E message \in VerdictMessages :
          BatchRebuildOne(i, message)
    \/ BatchReturn

SpecMany == InitMany /\ [][NextMany]_vars

(***************************************************************************)
(* The classifier's claims.  The sets below state the comparison of two    *)
(* summaries without the order of Diff's lists.                            *)
(***************************************************************************)
UpOnlySet == {p \in Paths : csUP.Files[p] # NoFile /\ csRB.Files[p] = NoFile}
RbOnlySet == {p \in Paths : csRB.Files[p] # NoFile /\ csUP.Files[p] = NoFile}
DiffSet ==
    {p \in Paths : /\ csUP.Files[p] # NoFile /\ csRB.Files[p] # NoFile
                   /\ csUP.Files[p] # csRB.Files[p]}

\* The part of a path after its last "/".
LastSlash(p) ==
    LET S == {i \in 1..Len(p) : p[i] = "/"}
    IN  IF S = {} THEN 0 ELSE CHOOSE i \in S : \A j \in S : j <= i
BaseName(p) == SubSeq(p, LastSlash(p) + 1, Len(p))

\* A .DS_STORE file: a file of that name, in any directory or in none.
IsDSStoreFile(p) == BaseName(p) = <<".", "D", "S", "_", "S", "T", "O", "R", "E">>

\* A path under a metadata directory: one of its directories has a name
\* ending in ".dist-info".
UnderMetadataDir(p) ==
    \E i \in 1..Len(p) :
        /\ p[i] = "/"
        /\ i > 10
        /\ SubSeq(p, i - 10, i - 1)
               = <<".", "d", "i", "s", "t", "-", "i", "n", "f", "o">>

\* The verdict of the first of rules (2)..(8) whose condition holds.
RulesFrom2 ==
    IF csUP.CRLFCount > csRB.CRLFCount THEN verdictLineEndings
    ELSE IF UpOnlySet # {} /\ RbOnlySet # {} THEN verdictMismatchedFiles
    ELSE IF UpOnlySet # {} THEN verdictUpstreamOnly
    ELSE IF RbOnlySet # {} THEN verdictRebuildOnly
    ELSE IF /\ UpOnlySet = {} /\ RbOnlySet = {} /\ DiffSet # {}
            /\ \A p \in DiffSet : UnderMetadataDir(p) THEN verdictWheelDiff
    ELSE IF DiffSet # {} THEN verdictContentDiff
    ELSE Nil

\* C1: compareTwoFiles returns the verdict of the first rule, in the order
\* (1)..(8), whose condition holds, rule (1) being "some upstream-only path
\* is a .DS_STORE file", and a nil error.
C1_FirstMatchingRule ==
    cmpPc = "done" =>
        /\ cmpErr = Nil
        /\ verdict = IF \E p \in UpOnlySet : IsDSStoreFile(p)
                     THEN verdictDSStore ELSE RulesFrom2

\* C1, with rule (1) read as the code tests it (the path ends in
\* "/.DS_STORE"): the order of the eight rules is the claimed one.
C1_OrderWithSuffixRule ==
    cmpPc = "done" =>
        /\ cmpErr = Nil
        /\ verdict = IF \E p \in UpOnlySet : HasSuffix(p, DSStoreSuffix)
                     THEN verdictDSStore ELSE RulesFrom2

NoDifferences == UpOnlySet = {} /\ RbOnlySet = {} /\ DiffSet = {}

\* C6 as stated: summaries without upstream-only, rebuild-only or differing
\* files yield a nil verdict and a nil error, whatever their CRLF counts.
C6_NoDifferencesNoVerdict ==
    cmpPc = "done" /\ NoDifferences => verdict = Nil /\ cmpErr = Nil

\* C6 amended: summaries without upstream-only, rebuild-only or differing
\* files yield a nil error, and a nil verdict when the upstream CRLF count
\* does not exceed the rebuild's; when it does, the line-endings verdict.
C6_NoDifferencesUpToCRLF ==
    cmpPc = "done" /\ NoDifferences =>
        /\ cmpErr = Nil
        /\ verdict = IF csUP.CRLFCount > csRB.CRLFCount
                     THEN verdictLineEndings ELSE Nil

\* C6 witness: two summaries with the same two files and equal hashes have
\* been compared, with no verdict.
C6_Witness ==
    /\ cmpPc = "done"
    /\ NoDifferences
    /\ csUP.Files[PathFoo] # NoFile
    /\ csUP.Files[PathMeta] # NoFile
    /\ csUP.CRLFCount = csRB.CRLFCount
    /\ verdict = Nil

\* C7: whenever an upstream-only path is a .DS_STORE file, the verdict is the
\* DS_Store verdict, whatever the CRLF counts and the other sets are.
C7_DSStoreBeatsLaterRules ==
    cmpPc = "done" /\ (\E p \in UpOnlySet : IsDSStoreFile(p)) =>
        verdict = verdictDSStore

\* C8: with no upstream-only and no rebuild-only file and an upstream CRLF
\* count that does not exceed the rebuild's, differing files that all lie
\* under a metadata directory give the metadata-only verdict, and differing
\* files of which one does not give the content-differences verdict.
C8_MetadataOnlyOrContent ==
    /\ cmpPc = "done"
    /\ UpOnlySet = {} /\ RbOnlySet = {}
    /\ csUP.CRLFCount <= csRB.CRLFCount
    /\ DiffSet # {}
    => verdict = IF \A p \in DiffSet : UnderMetadataDir(p)
                 THEN verdictWheelDiff ELSE verdictContentDiff

\* C8 witness: a metadata path and a non-metadata path differ, and the
\* verdict is content-differences.
C8_Witness ==
    /\ cmpPc = "done"
    /\ UpOnlySet = {} /\ RbOnlySet = {}
    /\ csUP.CRLFCount <= csRB.CRLFCount
    /\ DiffSet = {PathMeta, PathFoo}
    /\ verdict = verdictContentDiff

(***************************************************************************)
(* The claims about Rebuilder.Rebuild.                                     *)
(***************************************************************************)

\* C3: every Rebuild call runs Source, Deps, Build in that order, each at
\* most once and never two at a time, and a phase starts only after every
\* earlier phase has returned without error: after a failing Source neither
\* Deps nor Build runs, after a failing Deps Build does not run.
C3_PhasesInOrderStopAtFirstFailure ==
    \A a \in Attempts :
        /\ Len(started[a]) <= Len(Phases)
        /\ started[a] = SubSeq(Phases, 1, Len(started[a]))
        /\ Cardinality(running[a]) <= 1
        /\ \A i \in 1..Len(started[a]) : \A j \in 1..(i - 1) :
               j <= Len(outcome[a]) /\ outcome[a][j] = NilError

\* C3 witness: a call has returned after Source succeeded and Deps failed,
\* and Build was never started.
C3_Witness ==
    \E a \in Attempts :
        /\ rbPc[a] = "returned"
        /\ started[a] = <<"Source", "Deps">>
        /\ outcome[a][1] = NilError
        /\ outcome[a][2] # NilError

\* The context the claim gives for each phase.
ClaimedContext(phase) ==
    IF phase = "Source" THEN "fetching source"
    ELSE IF phase = "Deps" THEN "configuring build deps"
    ELSE "executing build"

\* C5: a Rebuild call returns nil exactly when all three phases succeeded;
\* otherwise it returns the failing script's error wrapped once, with the
\* context of the first failing phase; the three contexts differ pairwise.
C5_NilIffAllSucceedElseFirstFailure ==
    /\ Cardinality({PhaseContext(ph) : ph \in PhaseSet}) = 3
    /\ \A a \in Attempts : rbPc[a] = "returned" =>
        LET failedAt == {i \in 1..Len(outcome[a]) : outcome[a][i] # NilError}
        IN  /\ rbErr[a] = NilError <=>
                   (Len(outcome[a]) = 3 /\ failedAt = {})
            /\ rbErr[a] # NilError =>
                   /\ failedAt # {}
                   /\ LET k == CHOOSE i \in failedAt : \A j \in failedAt : i <= j
                      IN  rbErr[a]
                            = <<ClaimedContext(Phases[k])>> \o outcome[a][k]

\* C5 witness: one call has returned the Deps failure and another the Build
\* failure, each under its own context.
C5_Witness ==
    \E a, b \in Attempts :
        /\ rbPc[a] = "returned" /\ rbPc[b] = "returned"
        /\ rbErr[a] = <<"configuring build deps", "exit status 1">>
        /\ rbErr[b] = <<"executing build", "exit status 1">>

(***************************************************************************)
(* The claims about CachedClient.Do.                                       *)
(***************************************************************************)

\* The methods the claims call cached.
GetOrHead(method) == method \in {"GET", "HEAD"}

\* A call of the underlying client that returned a 200 response.
OkCall(c) == c.out.err = Nil /\ c.out.resp.StatusCode = 200

\* C2: while every call of the underlying client for a URL has been a GET
\* that succeeded, there has been at most one such call, however the callers
\* interleave; every caller that Do has returned to from a GET of the URL
\* has a successful response, the same for all of them, with the status,
\* header and body the underlying client returned in that one call.
C2_ConcurrentGetsOneFetch ==
    \A u \in URLs :
        (\A i \in 1..Len(calls[u]) :
            calls[u][i].Method = "GET" /\ OkCall(calls[u][i]))
        => /\ Len(calls[u]) <= 1
           /\ \A p \in Callers :
                 pc[p] = "returned" /\ req[p].Method = "GET" /\ req[p].URL = u
                 => /\ Len(calls[u]) = 1
                    /\ res[p].err = Nil
                    /\ res[p].resp.StatusCode = 200
                    /\ res[p].resp.ETag = calls[u][1].out.resp.ETag
                    /\ res[p].resp.Body = calls[u][1].out.resp.Body
                    /\ res[p].resp.BodyErr = Nil
                    /\ \A q \in Callers :
                          pc[q] = "returned" /\ req[q] = req[p]
                          => res[q] = res[p]

\* C2 witness: every caller called Do with a GET of one URL while it was not
\* cached, one of them fetched it and all the others waited, and Do has
\* returned to all of them after a single call of the underlying client.
C2_Witness ==
    \E u \in URLs :
        /\ Len(calls[u]) = 1
        /\ \A p \in Callers :
              /\ pc[p] = "returned"
              /\ req[p].Method = "GET" /\ req[p].URL = u
              /\ res[p].err = Nil
        /\ \E l \in Callers :
              /\ role[l] = "leader"
              /\ \A p \in Callers \ {l} : role[p] = "waiter"

\* C4, the state part: an entry stored for a URL is the response of a
\* GET/HEAD call of the underlying client that returned 200.
C4_StoredOnlyFrom200 ==
    \A u \in URLs : store[u] # NoEntry =>
        /\ store[u][2] = 200
        /\ \E i \in 1..Len(calls[u]) :
              /\ GetOrHead(calls[u][i].Method)
              /\ OkCall(calls[u][i])
              /\ store[u][5] = calls[u][i].out.resp.ETag

\* C4, the step of a failing fetch: Do returns an error to the caller, and
\* the URL has no entry and no computation under way afterwards.
C4_FailedFetchStep ==
    \A p \in Callers :
        /\ pc[p] = "compute" /\ pc'[p] # "compute"
        /\ ~OkCall(calls'[req[p].URL][Len(calls'[req[p].URL])])
        => /\ pc'[p] = "returned"
           /\ res'[p].err # Nil
           /\ store'[req[p].URL] = NoEntry
           /\ flight'[req[p].URL] = 0

\* C4, the retry: a GET/HEAD Do for a URL with no entry and no computation
\* under way runs the fetch, and every fetch calls the underlying client.
C4_RetryStep ==
    \A p \in Callers :
        /\ (/\ pc[p] = "idle" /\ pc'[p] # "idle"
            /\ GetOrHead(req'[p].Method)
            /\ store[req'[p].URL] = NoEntry
            /\ flight[req'[p].URL] = 0)
           => pc'[p] = "compute"
        /\ (pc[p] = "compute" /\ pc'[p] # "compute")
           => Len(calls'[req[p].URL]) = Len(calls[req[p].URL]) + 1

\* C4: a GET/HEAD that fails on a cache miss (an error of the underlying
\* client, or a status other than 200) makes Do return an error and stores
\* nothing for the URL, and a later Do for the URL calls the underlying
\* client again.
C4_FailedFetchNeverCached ==
    /\ []C4_StoredOnlyFrom200
    /\ [][C4_FailedFetchStep /\ C4_RetryStep]_vars

\* C4 witness: a GET/HEAD of a URL got a 404, a later one called the
\* underlying client again and got a 200, which is now stored.
C4_Witness ==
    \E u \in URLs :
        /\ Len(calls[u]) = 2
        /\ GetOrHead(calls[u][1].Method) /\ GetOrHead(calls[u][2].Method)
        /\ calls[u][1].out.resp.StatusCode = 404
        /\ OkCall(calls[u][2])
        /\ store[u] # NoEntry

\* C9: a Do whose method is neither GET nor HEAD calls the underlying client
\* once, returns its answer as it is, does not call GetOrSet and leaves the
\* cache as it was.
C9_OtherMethodsBypassCache ==
    [][\A p \in Callers :
          pc[p] = "idle" /\ pc'[p] # "idle" /\ ~GetOrHead(req'[p].Method)
          => LET u == req'[p].URL
             IN  /\ pc'[p] = "returned"
                 /\ Len(calls'[u]) = Len(calls[u]) + 1
                 /\ \A w \in URLs \ {u} : calls'[w] = calls[w]
                 /\ calls'[u][Len(calls'[u])].Method = req'[p].Method
                 /\ res'[p] = calls'[u][Len(calls'[u])].out
                 /\ getOrSets' = getOrSets
                 /\ store' = store
                 /\ flight' = flight]_vars

\* C9 witness: with an entry stored for a URL, a POST to that URL has
\* returned the underlying client's 404 response, without an error.
C9_Witness ==
    \E p \in Callers :
        /\ pc[p] = "returned"
        /\ req[p].Method = "POST"
        /\ store[req[p].URL] # NoEntry
        /\ res[p].err = Nil
        /\ res[p].resp.StatusCode = 404

\* C10, for a later Do that is a GET (the claim speaks of GET and HEAD
\* alike): a GET Do for a URL that finds it cached comes after the one
\* successful GET/HEAD call of the underlying client for the URL, with no
\* such call after it, and returns a response with the status, headers and
\* body of the first response Do returned for the URL, whose body reads to
\* its end without an error.
C10_HitReturnsFirstResponse ==
    \A p \in Callers :
        pc[p] = "returned" /\ role[p] = "hit" /\ req[p].Method = "GET" =>
        LET u == req[p].URL
            fetches == {i \in 1..Len(calls[u]) : GetOrHead(calls[u][i].Method)}
        IN  /\ \E i \in fetches :
                  /\ OkCall(calls[u][i])
                  /\ \A j \in fetches : j <= i /\ (j < i => ~OkCall(calls[u][j]))
            /\ res[p].err = Nil
            /\ res[p].resp.StatusCode = first[u].resp.StatusCode
            /\ res[p].resp.Status = first[u].resp.Status
            /\ res[p].resp.ETag = first[u].resp.ETag
            /\ res[p].resp.ContentLength = first[u].resp.ContentLength
            /\ res[p].resp.Body = first[u].resp.Body
            /\ res[p].resp.BodyErr = Nil

\* C10, for a Do with the method of the URL's first successful Do: the
\* response is the first one's, readable to its end.
C10_HitSameMethod ==
    \A p \in Callers :
        /\ pc[p] = "returned" /\ role[p] = "hit"
        /\ req[p].Method = first[req[p].URL].resp.Method
        => /\ res[p] = first[req[p].URL]
           /\ res[p].resp.BodyErr = Nil

(***************************************************************************)
(* The claim about Rebuilder.Compare.                                      *)
(***************************************************************************)

\* C12: Compare never returns a verdict together with an error; when
\* Summarize failed it returns no verdict and Summarize's error wrapped with
\* "summarizing assets"; when Summarize succeeded it returns the verdict
\* compareTwoFiles returned, which may be nil, and a nil error.
C12_VerdictAndErrorApart ==
    cmpPc = "returned" =>
        /\ ~(retVerdict # Nil /\ retErr # NilError)
        /\ sumErr # NilError =>
               /\ retVerdict = Nil
               /\ retErr = <<"summarizing assets">> \o sumErr
        /\ sumErr = NilError =>
               /\ retVerdict = verdict
               /\ verdict # "unset"
               /\ retErr = NilError

\* C12 witness: Summarize succeeded, compareTwoFiles returned the
\* mismatched-files verdict, and Compare has returned it with a nil error.
C12_Witness ==
    /\ cmpPc = "returned"
    /\ sumErr = NilError
    /\ verdict = verdictMismatchedFiles
    /\ retVerdict = verdictMismatchedFiles
    /\ retErr = NilError

(***************************************************************************)
(* The claims about the cache key.                                         *)
(***************************************************************************)

\* C11: a response Do returns for a GET/HEAD issued under a time constraint
\* (or under none) comes from a call of the underlying client made under
\* that same constraint: requests for one URL under different constraints
\* never share a cache entry.
C11_KeyIncorporatesTimewarp ==
    \A p \in Callers :
        pc[p] = "returned" /\ GetOrHead(req[p].Method) /\ res[p].err = Nil =>
        \E i \in 1..Len(calls[req[p].URL]) :
            LET c == calls[req[p].URL][i]
            IN  /\ GetOrHead(c.Method)
                /\ OkCall(c)
                /\ c.Timewarp = req[p].Timewarp
                /\ c.out.resp.ETag = res[p].resp.ETag

(***************************************************************************)
(* The claims about rebuildPackage.                                        *)
(***************************************************************************)

\* The number of lines of a bundle.
LineCount(bytes) == Cardinality({i \in 1..Len(bytes) : bytes[i] = "\n"})

\* C13: after a request has completed without an error and with no verdict,
\* the attestation bundle of its Target holds exactly two statements, one per
\* line, each about the Target's artifact and signed: the build-provenance
\* statement and the verdict statement; this for the Target of every
\* ecosystem and whatever other requests do.
C13_SuccessLeavesTwoStatements ==
    \A a \in PkgRequests :
        pkPc[a] = "done" /\ pkErr[a] = Nil /\ pkVerdict[a] = Nil =>
        LET bytes == attestationStore[pkTarget[a]]
            attestations == mustJSONL(bytes, 1, <<>>)
        IN  /\ Len(attestations) = 2
            /\ LineCount(bytes) = 2
            /\ attestations[1][1] = "provenance"
            /\ attestations[2][1] = "verdict"
            /\ \A i \in 1..2 :
                  /\ attestations[i][2] = pkTarget[a].Artifact
                  /\ attestations[i][4] = "just trust me"
                  /\ attestations[i][5] = "fake"

\* C13 witness: with OverwriteAttestations set, two requests for the Debian
\* Target have both completed with no verdict and no error.
C13_Witness ==
    /\ overwriteAttestations
    /\ \A a \in {1, 2} :
          /\ pkPc[a] = "done"
          /\ pkTarget[a] = TargetDebian
          /\ pkErr[a] = Nil
          /\ pkVerdict[a] = Nil

OnlyArtifactChanged(in, was) ==
    /\ in.Strategy = was.Strategy
    /\ in.Target.Ecosystem = was.Target.Ecosystem
    /\ in.Target.Package = was.Target.Package
    /\ in.Target.Version = was.Target.Version

\* C15: the inputs handed to the batch rebuild are the given ones, in their
\* order, changed in their Target.Artifact alone; and when RebuildMany
\* returns without error, it returns one verdict per input, the i-th being
\* that of the i-th input's Target, in whatever order the inputs were
\* rebuilt.
C15_VerdictsInInputOrder ==
    /\ batchCalls > 0 =>
           /\ Len(handed) = Len(given)
           /\ \A i \in 1..Len(given) : OnlyArtifactChanged(handed[i], given[i])
    /\ manyPc = "returned" /\ manyRet.err = NilError =>
           /\ Len(manyRet.verdicts) = Len(given)
           /\ \A i \in 1..Len(given) :
                  /\ manyRet.verdicts[i].Target.Package = given[i].Target.Package
                  /\ manyRet.verdicts[i].Target.Version = given[i].Target.Version
                  /\ manyRet.verdicts[i].Target = handed[i].Target
                  /\ manyRet.verdicts[i].Message \in VerdictMessages

\* C15 witness: two inputs of different packages were rebuilt, the second
\* before the first, and RebuildMany has returned their verdicts.
C15_Witness ==
    /\ manyPc = "returned"
    /\ manyRet.err = NilError
    /\ order = <<2, 1>>
    /\ given[1].Target.Package # given[2].Target.Package
    /\ manyRet.verdicts[1].Message # manyRet.verdicts[2].Message

\* The releases RebuildMany looks the inputs up in, and the inputs whose
\* version has no none-any wheel among them.
LookedUp == registry[given[1].Target.Package]
IsPureWheel(file) == file.Filename[3] = "py3-none-any.whl"
WithoutWheel ==
    {i \in 1..Len(given) :
        LET files == LookedUp.project.Releases[given[i].Target.Version]
        IN  \A j \in 1..Len(files) : ~IsPureWheel(files[j])}

\* C18: RebuildMany returns no verdicts and the error "no inputs provided"
\* for an empty list, the registry's error when the project lookup fails,
\* and an error naming the version when the version of some input has no
\* none-any wheel, an error unlike the other two; in all three cases
\* rebuild.RebuildMany is not called and no input is rebuilt.
C18_ValidationAllOrNothing ==
    manyPc = "returned" =>
        /\ given = <<>> =>
               /\ manyRet.err = <<"no inputs provided">>
               /\ manyRet.verdicts = <<>>
               /\ batchCalls = 0 /\ order = <<>>
        /\ given # <<>> /\ LookedUp.err # NilError =>
               /\ manyRet.err = LookedUp.err
               /\ manyRet.verdicts = <<>>
               /\ batchCalls = 0 /\ order = <<>>
        /\ given # <<>> /\ LookedUp.err = NilError /\ WithoutWheel # {} =>
               /\ \E i \in WithoutWheel :
                      manyRet.err = <<given[i].Target.Version,
                                      " does not have a none-any wheel">>
               /\ manyRet.err # <<"no inputs provided">>
               /\ \A p \in Packages : manyRet.err # registry[p].err
               /\ manyRet.verdicts = <<>>
               /\ batchCalls = 0 /\ order = <<>>

\* C18 witness: of two inputs of one package the first has a none-any wheel
\* and the second has none, and RebuildMany has returned the error naming
\* the second one's version.
C18_Witness ==
    /\ manyPc = "returned"
    /\ Len(given) = 2
    /\ given[1].Target.Package = given[2].Target.Package
    /\ LookedUp.err = NilError
    /\ WithoutWheel = {2}
    /\ manyRet.err = <<given[2].Target.Version, " does not have a none-any wheel">>
    /\ batchCalls = 0

\* C20: every input handed to the batch rebuild has as its Artifact the
\* first none-any wheel of the release, of the input's version, of the
\* project the first input's package names; so the artifacts all belong to
\* their inputs' packages exactly when all inputs name one package.
C20_ArtifactsFromFirstInputsProject ==
    batchCalls > 0 =>
        /\ \A i \in 1..Len(given) :
              LET files == LookedUp.project.Releases[given[i].Target.Version]
              IN  \E j \in 1..Len(files) :
                     /\ IsPureWheel(files[j])
                     /\ \A k \in 1..(j - 1) : ~IsPureWheel(files[k])
                     /\ handed[i].Target.Artifact = files[j].Filename
                     /\ files[j].Filename[1] = given[1].Target.Package
                     /\ files[j].Filename[2] = given[i].Target.Version
        /\ (\A i \in 1..Len(given) :
                handed[i].Target.Artifact[1] = given[i].Target.Package)
           <=> (\A i \in 1..Len(given) :
                   given[i].Target.Package = given[1].Target.Package)

\* C20 witness: the second input names another package and another version
\* than the first, and it was handed on with a file of the first input's
\* package as its artifact.
C20_Witness ==
    /\ batchCalls > 0
    /\ Len(given) = 2
    /\ given[2].Target.Package # given[1].Target.Package
    /\ given[2].Target.Version # given[1].Target.Version
    /\ handed[2].Target.Artifact
           = <<given[1].Target.Package, given[2].Target.Version, PureWheelTag>>

(***************************************************************************)
(* Further claims about the classifier and the cache key.                  *)
(***************************************************************************)

\* The orders a list can be in.
Orders(list) ==
    {o \in [1..Len(list) -> {list[i] : i \in 1..Len(list)}] :
        \A i, j \in 1..Len(list) : o[i] = o[j] => i = j}

\* C16: the verdict compareTwoFiles returned is the one it returns for the
\* same summaries with the upstream-only, the differing and the
\* rebuild-only paths listed in any other order (the listed order is one of
\* them: a second call returns the same verdict).
C16_OrderIndependent ==
    cmpPc = "done" =>
        LET d == Diff(csUP, csRB)
        IN  \A upOnly \in Orders(d.leftOnly) :
            \A diffs \in Orders(d.diffs) :
            \A rbOnly \in Orders(d.rightOnly) :
                ClassifyDiff(csRB, csUP,
                    [leftOnly |-> upOnly, diffs |-> diffs,
                     rightOnly |-> rbOnly]).verdict = verdict

\* C16 witness: a nested .DS_STORE file and another file, listed before it,
\* are the upstream-only paths, and the verdict is the DS_Store verdict.
C16_Witness ==
    /\ cmpPc = "done"
    /\ UpOnlySet = {PathFoo, PathNestDS}
    /\ verdict = verdictDSStore

\* ".DS_STORE", the marker the claim speaks of.
DSStoreMarker == <<".", "D", "S", "_", "S", "T", "O", "R", "E">>

\* C17: an upstream-only path ending in the .DS_STORE marker gives the
\* DS_Store verdict, be the file in a directory ("p/.DS_STORE") or at the
\* archive root (".DS_STORE").
C17_DSStoreAtEveryDepth ==
    cmpPc = "done" =>
        /\ PathNestDS \in UpOnlySet => verdict = verdictDSStore
        /\ PathRootDS \in UpOnlySet => verdict = verdictDSStore
        /\ \A p \in UpOnlySet :
              HasSuffix(p, DSStoreMarker) => verdict = verdictDSStore

\* C17, for files in a directory alone: the code gives these the DS_Store
\* verdict.
C17_NestedDSStore ==
    cmpPc = "done" /\ PathNestDS \in UpOnlySet => verdict = verdictDSStore

\* The successful GET/HEAD calls of the underlying client for a URL.
OkFetches(u) ==
    {i \in 1..Len(calls[u]) :
        GetOrHead(calls[u][i].Method) /\ OkCall(calls[u][i])}

\* C19: GET and HEAD requests for a URL share one cache entry: the
\* underlying client answers at most one GET/HEAD for the URL with success,
\* and once it has, every GET and every HEAD Do for the URL returns a
\* response made from that answer without calling the underlying client,
\* whichever of the two methods the answered request had.
C19_KeyIsURLOnly ==
    /\ [](\A u \in URLs : Cardinality(OkFetches(u)) <= 1)
    /\ [][\A p \in Callers :
            /\ pc[p] = "idle" /\ pc'[p] # "idle"
            /\ GetOrHead(req'[p].Method)
            /\ OkFetches(req'[p].URL) # {}
            => /\ pc'[p] = "returned"
               /\ calls' = calls
               /\ res'[p].err = Nil
               /\ \E i \in OkFetches(req'[p].URL) :
                     res'[p].resp.ETag = calls[req'[p].URL][i].out.resp.ETag]_vars

\* C19 witness: a GET of a URL was answered with success, and a HEAD Do for
\* the URL has since been served from the cache, with a single call of the
\* underlying client for the URL.
C19_Witness ==
    \E p \in Callers :
        /\ pc[p] = "returned"
        /\ role[p] = "hit"
        /\ req[p].Method = "HEAD"
        /\ Len(calls[req[p].URL]) = 1
        /\ calls[req[p].URL][1].Method = "GET"
        /\ res[p].err = Nil

====
